---- MODULE Spec2Model ----
(***************************************************************************)
(* Model of packages/jsii-rosetta/lib/commands/transliterate.ts:          *)
(* transliterateAssembly, loadAssemblies, prefixDisclaimer,               *)
(* transliterateType and its nested transliterateDocs.                    *)
(*                                                                         *)
(* The asynchronous function transliterateAssembly is a sequential        *)
(* program; pc is its position.  The Rosetta instance, the snippet        *)
(* preparation functions and the file system are collaborators whose      *)
(* results are chosen nondeterministically at every call.                 *)
(***************************************************************************)
EXTENDS Integers, Sequences, FiniteSets, TLC

\* ---------------------------------------------------------------- bounds
MaxDirs == 2      \* longest assemblyLocations list
MaxLangs == 2     \* longest targetLanguages list
MaxPairs == 4     \* most (directory, language) pairs of one run

\* ------------------------------------------------------------ text values
\* A text is a sequence of lines, a line a sequence of tokens; joining
\* parts with '\n' is concatenation of their lines.  The empty string and
\* an absent string are both << >> (both are falsy in the code's tests).
EmptyText == << >>

Src(token) == << <<token>> >>

Truthy(text) == text # EmptyText

\* ---------------------------------------------------------------- inputs
SPEC_FILE_NAME == ".jsii"

Directories == {"d1", "d2", "d3"}

TargetLanguages == {"python", "java"}

RECURSIVE SeqsUpTo(_, _)
SeqsUpTo(S, n) ==
    IF n = 0 THEN {<< >>}
    ELSE LET shorter == SeqsUpTo(S, n - 1)
         IN  shorter \cup {Append(s, x) : s \in shorter, x \in S}

\* ------------------------------------------------------ assembly documents
NoDocs == [defined |-> FALSE, example |-> EmptyText]

DocsOf(example) == [defined |-> TRUE, example |-> example]

NoInitializer == [defined |-> FALSE, docs |-> NoDocs]

\* An interface with one method (one parameter) and one property.
TypeIface ==
    [kind |-> "interface", docs |-> DocsOf(EmptyText),
     initializer |-> NoInitializer,
     methods |-> << [docs |-> DocsOf(EmptyText),
                     parameters |-> << [docs |-> NoDocs] >>] >>,
     properties |-> << [docs |-> DocsOf(EmptyText)] >>,
     members |-> << >>]

\* A class of the same shape as TypeIface, plus a documented initializer.
TypeClass ==
    [TypeIface EXCEPT !.kind = "class",
                      !.initializer = [defined |-> TRUE,
                                       docs |-> DocsOf(Src("new C()"))]]

TypeEnum ==
    [kind |-> "enum", docs |-> DocsOf(EmptyText),
     initializer |-> NoInitializer, methods |-> << >>, properties |-> << >>,
     members |-> << [docs |-> NoDocs], [docs |-> DocsOf(EmptyText)] >>]

TypeEnumWithExample ==
    [TypeEnum EXCEPT !.members = << [docs |-> DocsOf(Src("E.A"))] >>]

\* An interface and a class without methods and properties; the class has
\* its initializer's example as its only documented element.
TypeEmptyIface ==
    [TypeIface EXCEPT !.docs = NoDocs, !.methods = << >>,
                      !.properties = << >>]

TypeEmptyClass ==
    [TypeEmptyIface EXCEPT !.kind = "class",
                           !.initializer = [defined |-> TRUE,
                                            docs |-> DocsOf(Src("new N()"))]]

\* A type whose kind is none of class, interface, enum.
TypeUnknown ==
    [TypeIface EXCEPT !.kind = "unknown", !.docs = DocsOf(Src("x()"))]

Prose == [code |-> FALSE, text |-> Src("prose")]

Code(text) == [code |-> TRUE, text |-> text]

\* The assembly file stored in each directory before the run.
OnDisk(directory) ==
    CASE directory = "d1" ->
           [name |-> "a1", readme |-> << >>,
            types |-> <<TypeIface, TypeClass>>]
      [] directory = "d2" ->
           [name |-> "a2", readme |-> <<Prose, Code(Src("demo()"))>>,
            types |-> <<TypeEnum>>]
      [] OTHER ->
           [name |-> "a3", readme |-> << >>,
            types |-> <<TypeEmptyIface, TypeEmptyClass,
                        TypeEnumWithExample, TypeUnknown>>]

\* ----------------------------------------------------------------- paths
\* Line 127: resolve(directory, SPEC_FILE_NAME)
InputPath(directory) == [dir |-> directory, file |-> <<SPEC_FILE_NAME>>]

\* Mutant: the language suffix is forgotten.
OutputPathWithoutLanguage(location, language) == InputPath(location)

\* Mutant: the suffix does not depend on the language.
OutputPathIgnoringLanguage(location, language) ==
    [dir |-> location, file |-> <<SPEC_FILE_NAME, "out">>]

\* Line 87: resolve(location, `${SPEC_FILE_NAME}.${language}`)
OutputPath(location, language) ==
    [dir |-> location, file |-> <<SPEC_FILE_NAME, language>>]

\* ------------------------------------------------------- prefixDisclaimer
\* The lines of a string: the empty string is one empty line.
Lines(text) == IF text = EmptyText THEN << << >> >> ELSE text

\* Mutant: ruby is missing from the cases that return '#'.
CommentTokenPythonOnly(language) ==
    CASE language = "python" -> "#"
      [] OTHER -> "//"

\* Lines 152-164: commentToken().
CommentToken(language) ==
    CASE language \in {"python", "ruby"} -> "#"
      [] OTHER -> "//"

PrefixDisclaimer(translation) ==
    LET comment == CommentToken(translation.language)
        disclaimer ==
            IF translation.didCompile
            THEN "This example was automatically transliterated."
            ELSE "This example was automatically transliterated with incomplete type information. It may not work as-is."
    IN  << <<comment, disclaimer>>,
           <<comment, "See https://github.com/aws/jsii/issues/826 for more information.">>,
           << >> >>
        \o Lines(translation.source)

\* ------------------------------------------------------ Rosetta (external)
\* What one call of rosetta.translateSnippet / translateSnippetsInMarkdown
\* (with the snippet preparation before it) can do: throw, return no
\* translation, or return a Translation; it may record a compile
\* diagnostic that counts as an error.
NoTranslation(language) ==
    [some |-> FALSE, language |-> language, source |-> EmptyText,
     didCompile |-> FALSE]

Translations(language) ==
    {NoTranslation(language)} \cup
    {[some |-> TRUE, language |-> language,
      source |-> Src("translated"), didCompile |-> c] : c \in BOOLEAN}

EngineOutcomes(language) ==
    {[throws |-> TRUE, translation |-> NoTranslation(language),
      diagnostic |-> FALSE]} \cup
    {[throws |-> FALSE, translation |-> t, diagnostic |-> g] :
        t \in Translations(language), g \in BOOLEAN}

\* rosetta.translateSnippetsInMarkdown with the formatter of lines 75-78:
\* every code block that got a translation is replaced by the formatter's
\* source.
TranslateSnippetsInMarkdown(markdown, translation) ==
    [b \in 1..Len(markdown) |->
        IF markdown[b].code /\ translation.some
        THEN [markdown[b] EXCEPT !.text = PrefixDisclaimer(translation)]
        ELSE markdown[b]]

CodeTexts(markdown) ==
    {markdown[b].text : b \in {c \in 1..Len(markdown) : markdown[c].code}}

\* ------------------------------------------------------------------ state
VARIABLES
    dirs,        \* assemblyLocations
    langs,       \* targetLanguages
    options,     \* [strict, tablet]
    disk,        \* file system: path -> document
    pc,          \* position in transliterateAssembly / transliterateType
    thrown,      \* the error the run was rejected with ("" while none)
    rosetta,     \* the Rosetta instance
    assemblies,  \* keys of the Map returned by loadAssemblies, in order
    k,           \* loadAssemblies: index of the directory being loaded
    di,          \* index into assemblies.entries()
    li,          \* index into targetLanguages
    result,      \* the copy loaded for the current (location, language)
    ti,          \* index of the type being transliterated
    mi,          \* index of the method / property / member in its loop
    pj,          \* index of the parameter in its loop
    visited,     \* per type of the current copy: Docs nodes passed to transliterateDocs
    call,        \* the last transliterateDocs call made on the current copy
    written,     \* the writeJson calls made so far: [path, doc]
    prefixed,    \* a Translation and what prefixDisclaimer returned for it
    log          \* calls made so far: [op, dir, lang]

vars == <<dirs, langs, options, disk, pc, thrown, rosetta, assemblies, k,
          di, li, result, ti, mi, pj, visited, call, written, prefixed, log>>

NoPrefixed ==
    [translation |-> NoTranslation(""), text |-> EmptyText,
     applied |-> FALSE]

NoAssembly == [name |-> "", readme |-> << >>, types |-> << >>]

Event(op, dir, lang) == [op |-> op, dir |-> dir, lang |-> lang]

\* What is recorded of one transliterateDocs(docs) call: the type and node
\* it was made on, the docs it received, whether the example was handed to
\* the engine and what the engine did, and rosetta.hasErrors before it.
Call(made, type, node, docs, engine, outcome, errorsBefore) ==
    [made |-> made, type |-> type, node |-> node, docs |-> docs,
     engine |-> engine, outcome |-> outcome, errorsBefore |-> errorsBefore]

Silent(language) ==
    [throws |-> FALSE, translation |-> NoTranslation(language),
     diagnostic |-> FALSE]

NoCall ==
    Call(FALSE, 0, [kind |-> "type", i |-> 0, j |-> 0],
         NoDocs, FALSE, Silent(""),
         FALSE)

Init ==
    /\ dirs \in SeqsUpTo(Directories, MaxDirs)
    /\ langs \in SeqsUpTo(TargetLanguages, MaxLangs)
    /\ Len(dirs) * Len(langs) <= MaxPairs
    /\ options \in [strict : BOOLEAN, tablet : BOOLEAN]
    /\ disk = [p \in {InputPath(d) : d \in Directories} |-> OnDisk(p.dir)]
    /\ pc = "start"
    /\ thrown = ""
    /\ rosetta = [tablets |-> 0, assemblies |-> << >>, hasErrors |-> FALSE,
                  printed |-> 0, snippets |-> {}, markdownStrict |-> {}]
    /\ assemblies = << >>
    /\ k = 1
    /\ di = 1
    /\ li = 1
    /\ result = NoAssembly
    /\ ti = 1
    /\ mi = 1
    /\ pj = 1
    /\ visited = << >>
    /\ call = NoCall
    /\ written = << >>
    /\ prefixed = NoPrefixed
    /\ log = << >>

\* Mutant: the error is recorded but the run goes on with the loop over
\* the pairs.
ThrowSwallowed(message) ==
    /\ pc' = "loop"
    /\ thrown' = message

Throw(message) ==
    /\ pc' = "rejected"
    /\ thrown' = message

\* -------------------------------------------------- transliterateAssembly
\* Lines 54-62: the Rosetta instance exists; the tablet is loaded if given.
LoadTablet ==
    /\ pc = "start"
    /\ options.tablet
    /\ log' = Append(log, Event("tablet", "", ""))
    /\ \E ok \in BOOLEAN :
          IF ok
          THEN /\ rosetta' = [rosetta EXCEPT !.tablets = @ + 1]
               /\ pc' = "loadAssemblies"
               /\ UNCHANGED thrown
          ELSE /\ Throw("io")
               /\ UNCHANGED rosetta
    /\ UNCHANGED <<prefixed, dirs, langs, options, disk, assemblies, k, di, li,
                   result, ti, mi, pj, visited, call,
                   written>>

\* Mutant: the tablet may be left out although one is given.
NoTabletWhateverOption ==
    /\ pc = "start"
    /\ pc' = "loadAssemblies"
    /\ UNCHANGED <<prefixed, dirs, langs, options, disk, thrown, rosetta,
                   assemblies, k, di, li, result, ti, mi, pj, visited, call,
                   log, written>>

\* Line 60: options.tablet is not given.
NoTablet ==
    /\ pc = "start"
    /\ ~options.tablet
    /\ pc' = "loadAssemblies"
    /\ UNCHANGED <<prefixed, dirs, langs, options, disk, thrown, rosetta, assemblies,
                   k, di, li, result, ti, mi, pj, visited, call, log,
                   written>>

\* ---------------------------------------------------------- loadAssemblies
\* Mutant: the loaders are kept in a list, one entry per directory named.
MapSetAppending(map, key) == Append(map, key)

\* Map.set: a key already present keeps its place.
MapSet(map, key) ==
    IF \E i \in 1..Len(map) : map[i] = key THEN map ELSE Append(map, key)

\* Mutant: the copy of the previous iteration is kept and handed out again.
LoaderReusingCopy(directory) ==
    IF result.name = disk[InputPath(directory)].name
    THEN result
    ELSE disk[InputPath(directory)]

\* The loader of line 127: readJson of the directory's assembly file.
Loader(directory) == disk[InputPath(directory)]

\* One turn of the loop of lines 126-131.
LoadAssembliesStep ==
    /\ pc = "loadAssemblies"
    /\ k <= Len(dirs)
    /\ LET directory == dirs[k] IN
       \E outcome \in {"ok", "readFails", "addFails"} :
          /\ log' = log \o <<Event("read", directory, "")>>
                        \o (IF outcome = "readFails" THEN << >>
                            ELSE <<Event("register", directory, "")>>)
          /\ IF outcome = "ok"
             THEN /\ rosetta' = [rosetta EXCEPT
                                   !.assemblies =
                                       Append(@, [directory |-> directory,
                                                  assembly |->
                                                      Loader(directory)])]
                  /\ assemblies' = MapSet(assemblies, directory)
                  /\ k' = k + 1
                  /\ UNCHANGED <<pc, thrown>>
             ELSE /\ Throw("io")
                  /\ UNCHANGED <<rosetta, assemblies, k>>
    /\ UNCHANGED <<prefixed, dirs, langs, options, disk, di, li, result, ti, mi, pj,
                   visited, call,
                   written>>

\* Mutant: the loops start as soon as one assembly is loaded.
LoadAssembliesReturnEarly ==
    /\ pc = "loadAssemblies"
    /\ k > 1 \/ k > Len(dirs)
    /\ pc' = "loop"
    /\ di' = 1
    /\ li' = 1
    /\ UNCHANGED <<prefixed, dirs, langs, options, disk, thrown, rosetta,
                   assemblies, k, result, ti, mi, pj, visited, call, log,
                   written>>

\* Line 133: the map is returned; the loops of lines 65-66 start.
LoadAssembliesReturn ==
    /\ pc = "loadAssemblies"
    /\ k > Len(dirs)
    /\ pc' = "loop"
    /\ di' = 1
    /\ li' = 1
    /\ UNCHANGED <<prefixed, dirs, langs, options, disk, thrown, rosetta, assemblies,
                   k, result, ti, mi, pj, visited, call, log,
                   written>>

\* ------------------------------------------- the loops of lines 65 and 66
Location == assemblies[di]

\* Mutant: the languages are taken from the end of the list.
LanguageFromEnd == langs[Len(langs) + 1 - li]

\* Line 66: language, the loop variable over targetLanguages.
Language == langs[li]

\* Line 65: the languages of one location are exhausted; next map entry.
NextLocation ==
    /\ pc = "loop"
    /\ di <= Len(assemblies)
    /\ li > Len(langs)
    /\ di' = di + 1
    /\ li' = 1
    /\ UNCHANGED <<prefixed, dirs, langs, options, disk, pc, thrown, rosetta,
                   assemblies, k, result, ti, mi, pj, visited, call, log,
                   written>>

\* Line 69: result = await loadAssembly().
LoadAssembly ==
    /\ pc = "loop"
    /\ di <= Len(assemblies)
    /\ li <= Len(langs)
    /\ log' = Append(log, Event("read", Location, Language))
    /\ \E ok \in BOOLEAN :
          IF ok
          THEN /\ result' = Loader(Location)
               /\ visited' = << >>
               /\ call' = NoCall
               /\ pc' = "markdown"
               /\ UNCHANGED thrown
          ELSE /\ Throw("io")
               /\ UNCHANGED <<result, visited, call>>
    /\ UNCHANGED <<prefixed, dirs, langs, options, disk, rosetta, assemblies, k, di,
                   li, ti, mi, pj,
                   written>>

\* Mutant: the strict flag of the markdown translation is the run's option.
MarkdownStrictFromOptions == options.strict

\* Line 74: true /* strict */
MarkdownStrict == TRUE

\* Lines 70-81: the README's markdown, when there is one.
TranslateMarkdown ==
    /\ pc = "markdown"
    /\ IF Truthy(result.readme)
       THEN /\ log' = Append(log, Event("markdown", Location, Language))
            /\ \E outcome \in EngineOutcomes(Language) :
                  IF outcome.throws
                  THEN /\ Throw("engine")
                       /\ UNCHANGED <<rosetta, result, ti>>
                  ELSE /\ rosetta' =
                            [rosetta EXCEPT
                               !.snippets = @ \cup CodeTexts(result.readme),
                               !.markdownStrict = @ \cup {MarkdownStrict},
                               !.hasErrors = @ \/ outcome.diagnostic]
                       /\ result' =
                            [result EXCEPT !.readme =
                               TranslateSnippetsInMarkdown(
                                   @, outcome.translation)]
                       /\ ti' = 1
                       /\ pc' = "types"
                       /\ UNCHANGED thrown
       ELSE /\ ti' = 1
            /\ pc' = "types"
            /\ UNCHANGED <<thrown, rosetta, result, log>>
    /\ UNCHANGED <<prefixed, dirs, langs, options, disk, assemblies, k, di, li, mi,
                   pj, visited, call,
                   written>>

\* Line 82: the next type of the copy enters transliterateType, or the
\* loop over the types ends.
NextType ==
    /\ pc = "types"
    /\ IF ti <= Len(result.types)
       THEN /\ visited' = Append(visited, << >>)
            /\ pc' = "typeDocs"
       ELSE /\ pc' = "write"
            /\ UNCHANGED visited
    /\ UNCHANGED <<prefixed, dirs, langs, options, disk, thrown, rosetta, assemblies,
                   k, di, li, result, ti, mi, pj, call, log,
                   written>>

\* ------------------------------------------------------- transliterateType
Node(kind, i, j) == [kind |-> kind, i |-> i, j |-> j]

TypeNode == Node("type", 0, 0)

InitializerNode == Node("initializer", 0, 0)

\* The Docs a node of a type holds (type?.initializer?.docs is undefined
\* when the type has no initializer).
DocsAt(type, node) ==
    CASE node.kind = "type" -> type.docs
      [] node.kind = "initializer" ->
           IF type.initializer.defined THEN type.initializer.docs ELSE NoDocs
      [] node.kind = "method" -> type.methods[node.i].docs
      [] node.kind = "parameter" ->
           type.methods[node.i].parameters[node.j].docs
      [] node.kind = "property" -> type.properties[node.i].docs
      [] OTHER -> type.members[node.i].docs

WithDocs(type, node, docs) ==
    CASE node.kind = "type" -> [type EXCEPT !.docs = docs]
      [] node.kind = "initializer" -> [type EXCEPT !.initializer.docs = docs]
      [] node.kind = "method" -> [type EXCEPT !.methods[node.i].docs = docs]
      [] node.kind = "parameter" ->
           [type EXCEPT !.methods[node.i].parameters[node.j].docs = docs]
      [] node.kind = "property" ->
           [type EXCEPT !.properties[node.i].docs = docs]
      [] OTHER -> [type EXCEPT !.members[node.i].docs = docs]

\* Line 205: docs?.example
HasExample(docs) == docs.defined /\ Truthy(docs.example)

\* Mutant: the null check of line 216 is missing, the disclaimer is put
\* in front of whatever the engine returned.
TransliterateDocsUnchecked(docs, translation) ==
    [docs EXCEPT !.example = PrefixDisclaimer(translation)]

\* Lines 216-218: what transliterateDocs leaves in docs, given what
\* rosetta.translateSnippet returned.
TransliterateDocs(docs, translation) ==
    IF translation.some
    THEN [docs EXCEPT !.example = PrefixDisclaimer(translation)]
    ELSE docs

\* One call transliterateDocs(docs) on a node of the current type
\* (lines 204-220), continuing at position next.
Visit(node, next) ==
    LET type == result.types[ti]
        docs == DocsAt(type, node)
    IN  /\ visited' = [visited EXCEPT ![ti] = Append(@, node)]
        /\ IF HasExample(docs)
           THEN \E outcome \in EngineOutcomes(Language) :
                   /\ call' = Call(TRUE, ti, node, docs, TRUE, outcome,
                                   rosetta.hasErrors)
                   /\ IF outcome.throws
                      THEN /\ Throw("engine")
                           /\ UNCHANGED <<rosetta, result>>
                      ELSE /\ rosetta' =
                                [rosetta EXCEPT
                                   !.snippets = @ \cup {docs.example},
                                   !.hasErrors = @ \/ outcome.diagnostic]
                           /\ result' =
                                [result EXCEPT !.types[ti] =
                                   WithDocs(type, node,
                                       TransliterateDocs(docs,
                                           outcome.translation))]
                           /\ pc' = next
                           /\ UNCHANGED thrown
           ELSE /\ call' = Call(TRUE, ti, node, docs, FALSE,
                                Silent(Language), rosetta.hasErrors)
                /\ pc' = next
                /\ UNCHANGED <<thrown, rosetta, result>>

\* Line 174.
TypeDocs ==
    /\ pc = "typeDocs"
    /\ Visit(TypeNode, "switch")
    /\ UNCHANGED <<prefixed, dirs, langs, options, disk, assemblies, k, di, li, ti,
                   mi, pj, log,
                   written>>

\* Mutant: a kind the switch does not know is skipped silently.
SwitchCaseTolerant(kind) ==
    CASE kind = "class" -> "initializer"
      [] kind = "interface" -> "methods"
      [] OTHER -> "members"

\* Mutant: the Enum case is missing its own loop and shares the
\* Interface case.
SwitchCaseEnumAsInterface(kind) ==
    CASE kind = "class" -> "initializer"
      [] kind \in {"interface", "enum"} -> "methods"
      [] OTHER -> "default"

\* Mutant: the Class case is missing, a class is handled as an interface.
SwitchCaseClassAsInterface(kind) ==
    CASE kind \in {"class", "interface"} -> "methods"
      [] kind = "enum" -> "members"
      [] OTHER -> "default"

\* Lines 175-201: the case the switch enters for a kind.
SwitchCase(kind) ==
    CASE kind = "class" -> "initializer"
      [] kind = "interface" -> "methods"
      [] kind = "enum" -> "members"
      [] OTHER -> "default"

\* Line 201.
UnsupportedKind == "Unsupported type kind"

Switch ==
    /\ pc = "switch"
    /\ LET case == SwitchCase(result.types[ti].kind) IN
       IF case = "default"
       THEN /\ Throw(UnsupportedKind)
            /\ UNCHANGED mi
       ELSE /\ pc' = case
            /\ mi' = 1
            /\ UNCHANGED thrown
    /\ UNCHANGED <<prefixed, dirs, langs, options, disk, rosetta, assemblies, k, di,
                   li, result, ti, pj, visited, call, log,
                   written>>

\* Mutant: the Class case goes on with the properties only.
AfterInitializerSkipsMethods == "properties"

\* Lines 179-182: no break after the initializer's Docs; control falls
\* through to the Interface case.
AfterInitializer == "methods"

Initializer ==
    /\ pc = "initializer"
    /\ Visit(InitializerNode, AfterInitializer)
    /\ UNCHANGED <<prefixed, dirs, langs, options, disk, assemblies, k, di, li, ti,
                   mi, pj, log,
                   written>>

\* Lines 183-184.
Methods ==
    /\ pc = "methods"
    /\ IF mi <= Len(result.types[ti].methods)
       THEN /\ Visit(Node("method", mi, 0), "parameters")
            /\ pj' = 1
            /\ UNCHANGED mi
       ELSE /\ pc' = "properties"
            /\ mi' = 1
            /\ UNCHANGED <<thrown, rosetta, result, pj, visited, call>>
    /\ UNCHANGED <<prefixed, dirs, langs, options, disk, assemblies, k, di, li, ti,
                   log,
                   written>>

\* Lines 185-187.
Parameters ==
    /\ pc = "parameters"
    /\ IF pj <= Len(result.types[ti].methods[mi].parameters)
       THEN /\ Visit(Node("parameter", mi, pj), "parameters")
            /\ pj' = pj + 1
            /\ UNCHANGED mi
       ELSE /\ pc' = "methods"
            /\ mi' = mi + 1
            /\ UNCHANGED <<thrown, rosetta, result, pj, visited, call>>
    /\ UNCHANGED <<prefixed, dirs, langs, options, disk, assemblies, k, di, li, ti,
                   log,
                   written>>

\* Lines 189-192.
Properties ==
    /\ pc = "properties"
    /\ IF mi <= Len(result.types[ti].properties)
       THEN /\ Visit(Node("property", mi, 0), "properties")
            /\ mi' = mi + 1
            /\ UNCHANGED ti
       ELSE /\ pc' = "types"
            /\ ti' = ti + 1
            /\ UNCHANGED <<thrown, rosetta, result, mi, visited, call>>
    /\ UNCHANGED <<prefixed, dirs, langs, options, disk, assemblies, k, di, li, pj,
                   log,
                   written>>

\* Lines 194-198.
Members ==
    /\ pc = "members"
    /\ IF mi <= Len(result.types[ti].members)
       THEN /\ Visit(Node("member", mi, 0), "members")
            /\ mi' = mi + 1
            /\ UNCHANGED ti
       ELSE /\ pc' = "types"
            /\ ti' = ti + 1
            /\ UNCHANGED <<thrown, rosetta, result, mi, visited, call>>
    /\ UNCHANGED <<prefixed, dirs, langs, options, disk, assemblies, k, di, li, pj,
                   log,
                   written>>

\* ------------------------------------------------------- lines 86 to 105
\* Mutant: the diagnostics are printed as soon as a pair is written.
AfterWritePrints == "print"

\* Line 97: after the write (and the debug message) the loop over the
\* languages goes on.
AfterWrite == "loop"

\* What a writeJson that failed after opening its file leaves in it.
PartialFile == [name |-> "", readme |-> << >>, types |-> << >>]

\* Lines 86-90: writeJson of the copy to the pair's output path. A write
\* that fails leaves the path as it was (the file could not be opened) or
\* leaves an incomplete file there (the file was opened, and truncated,
\* before the failure).
WriteJson ==
    /\ pc = "write"
    /\ \E outcome \in {"ok", "fails", "failsPartly"} :
          LET path == OutputPath(Location, Language) IN
          IF outcome = "ok"
          THEN /\ disk' = (path :> result) @@ disk
               /\ written' = Append(written, [path |-> path, doc |-> result])
               /\ log' = Append(log, Event("write", Location, Language))
               /\ li' = li + 1
               /\ pc' = AfterWrite
               /\ UNCHANGED thrown
          ELSE /\ Throw("io")
               /\ disk' = IF outcome = "failsPartly"
                          THEN (path :> PartialFile) @@ disk
                          ELSE disk
               /\ UNCHANGED <<written, log, li>>
    /\ UNCHANGED <<prefixed, dirs, langs, options, rosetta, assemblies, k, di, result,
                   ti, mi, pj, visited, call>>

\* Line 98: the map's entries are exhausted.
LoopEnd ==
    /\ pc = "loop"
    /\ di > Len(assemblies)
    /\ pc' = "print"
    /\ UNCHANGED <<prefixed, dirs, langs, options, disk, thrown, rosetta, assemblies,
                   k, di, li, result, ti, mi, pj, visited, call, log,
                   written>>

\* Line 100.
PrintDiagnostics ==
    /\ pc = "print"
    /\ rosetta' = [rosetta EXCEPT !.printed = @ + 1]
    /\ log' = Append(log, Event("print", "", ""))
    /\ pc' = "strict"
    /\ UNCHANGED <<prefixed, dirs, langs, options, disk, thrown, assemblies, k, di,
                   li, result, ti, mi, pj, visited, call,
                   written>>

\* Lines 102-104.
StrictMessage == "Strict mode is enabled and some examples failed compilation!"

\* Mutant: the strict option is not consulted.
StrictFailureWithoutOption == rosetta.hasErrors

\* Line 101.
StrictFailure == rosetta.hasErrors /\ options.strict

\* Lines 101-106.
StrictCheck ==
    /\ pc = "strict"
    /\ IF StrictFailure
       THEN Throw(StrictMessage)
       ELSE /\ pc' = "done"
            /\ UNCHANGED thrown
    /\ UNCHANGED <<prefixed, dirs, langs, options, disk, rosetta, assemblies, k, di,
                   li, result, ti, mi, pj, visited, call, log,
                   written>>

Next ==
    \/ LoadTablet
    \/ NoTablet
    \/ LoadAssembliesStep
    \/ LoadAssembliesReturn
    \/ NextLocation
    \/ LoadAssembly
    \/ TranslateMarkdown
    \/ NextType
    \/ TypeDocs
    \/ Switch
    \/ Initializer
    \/ Methods
    \/ Parameters
    \/ Properties
    \/ Members
    \/ WriteJson
    \/ LoopEnd
    \/ PrintDiagnostics
    \/ StrictCheck

Spec == Init /\ [][Next]_vars

\* ------------------------------------------- prefixDisclaimer on its own
MaxSourceLines == 2

PrefixLanguages == {"python", "ruby", "csharp", "java", "go", "klingon"}

\* The Translations prefixDisclaimer is applied to: any language, compiled
\* or not, a source of up to MaxSourceLines lines (none: the empty string).
PrefixInputs ==
    [some : {TRUE}, language : PrefixLanguages,
     source : SeqsUpTo({<<"x">>, <<"y">>}, MaxSourceLines),
     didCompile : BOOLEAN]

InitPrefix ==
    /\ dirs = << >>
    /\ langs = << >>
    /\ options = [strict |-> FALSE, tablet |-> FALSE]
    /\ disk = [p \in {InputPath(d) : d \in Directories} |-> OnDisk(p.dir)]
    /\ pc = "prefixDisclaimer"
    /\ thrown = ""
    /\ rosetta = [tablets |-> 0, assemblies |-> << >>, hasErrors |-> FALSE,
                  printed |-> 0, snippets |-> {}, markdownStrict |-> {}]
    /\ assemblies = << >>
    /\ k = 1
    /\ di = 1
    /\ li = 1
    /\ result = NoAssembly
    /\ ti = 1
    /\ mi = 1
    /\ pj = 1
    /\ visited = << >>
    /\ call = NoCall
    /\ written = << >>
    /\ prefixed \in [translation : PrefixInputs, text : {EmptyText},
                     applied : {FALSE}]
    /\ log = << >>

\* Lines 139-165: one call prefixDisclaimer(translation).
ApplyPrefixDisclaimer ==
    /\ pc = "prefixDisclaimer"
    /\ ~prefixed.applied
    /\ prefixed' = [prefixed EXCEPT
                       !.text = PrefixDisclaimer(prefixed.translation),
                       !.applied = TRUE]
    /\ UNCHANGED <<dirs, langs, options, disk, pc, thrown, rosetta,
                   assemblies, k, di, li, result, ti, mi, pj, visited, call,
                   written, log>>

NextPrefix == ApplyPrefixDisclaimer

SpecPrefix == InitPrefix /\ [][NextPrefix]_vars

\* ======================================================= properties
Range(seq) == {seq[i] : i \in 1..Len(seq)}

Occurrences(seq, x) == Cardinality({i \in 1..Len(seq) : seq[i] = x})

InputPaths == {InputPath(d) : d \in Directories}

OutputPaths == {OutputPath(d, l) : d \in Range(dirs), l \in Range(langs)}

\* The Docs nodes a type has, whatever its kind.
NodesOf(type) ==
    {TypeNode}
    \cup (IF type.initializer.defined THEN {InitializerNode} ELSE {})
    \cup {Node("method", m, 0) : m \in 1..Len(type.methods)}
    \cup UNION {{Node("parameter", m, p) :
                    p \in 1..Len(type.methods[m].parameters)} :
                m \in 1..Len(type.methods)}
    \cup {Node("property", q, 0) : q \in 1..Len(type.properties)}
    \cup {Node("member", q, 0) : q \in 1..Len(type.members)}

\* The snippet texts of a document: the code blocks of its README and the
\* examples of its Docs nodes.
TextsOf(assembly) ==
    CodeTexts(assembly.readme)
    \cup UNION {{DocsAt(assembly.types[t], n).example :
                    n \in {m \in NodesOf(assembly.types[t]) :
                             HasExample(DocsAt(assembly.types[t], m))}} :
                t \in 1..Len(assembly.types)}

LastIndex(op) ==
    LET at == {i \in 1..Len(log) : log[i].op = op}
    IN  IF at = {} THEN 0 ELSE CHOOSE i \in at : \A j \in at : j <= i

Writes(path) == Cardinality({i \in 1..Len(written) : written[i].path = path})

\* The positions of one (location, language) iteration after its load.
InIteration ==
    pc \in {"markdown", "types", "typeDocs", "switch", "initializer",
            "methods", "parameters", "properties", "members", "write"}

\* The run ended without a fatal error: it returned, or it did all its
\* work and was rejected by strict mode.
EndedWithoutFatalError ==
    pc = "done" \/ (pc = "rejected" /\ thrown = StrictMessage)

\* C1: every (location, language) iteration works on a copy read from disk
\* by a Loader call of its own, made after the previous pair's write: the
\* copy it starts from is the on-disk assembly, and every snippet text
\* submitted to the Translation Engine is a text of an on-disk assembly,
\* never one rewritten for another language.
C1_FreshCopyPerLanguage ==
    /\ \A text \in rosetta.snippets :
          \E d \in Directories : text \in TextsOf(OnDisk(d))
    /\ pc = "markdown" => result = OnDisk(Location)
    /\ InIteration =>
          /\ log[LastIndex("read")] = Event("read", Location, Language)
          /\ LastIndex("read") > LastIndex("write")

\* C1 witness: a later language of a directory is at its write with examples
\* rewritten, after an earlier language of the same directory wrote a
\* rewritten copy.
C1_Witness ==
    /\ pc = "write"
    /\ li > 1
    /\ result # OnDisk(Location)
    /\ \E i \in 1..Len(written) :
          /\ written[i].path.dir = Location
          /\ written[i].doc # OnDisk(Location)
          /\ written[i].doc # result

\* C2: the input assembly file of every directory keeps the content it had
\* before the run; the run writes only to output paths of its pairs, and
\* none of them is an input path.
C2_InputsUntouched ==
    /\ \A d \in Directories :
          /\ InputPath(d) \in DOMAIN disk
          /\ disk[InputPath(d)] = OnDisk(d)
    /\ \A i \in 1..Len(written) :
          /\ written[i].path \notin InputPaths
          /\ written[i].path \in OutputPaths

\* C2 witness: a rewritten copy has been written next to its input.
C2_Witness ==
    \E i \in 1..Len(written) :
       /\ written[i].doc # OnDisk(written[i].path.dir)
       /\ disk[written[i].path] = written[i].doc

\* C3 as stated: a run without a fatal error performs exactly one write for
\* every pair of a directory and a language named in the inputs.
C3_OneWritePerNamedPair ==
    EndedWithoutFatalError =>
       /\ \A d \in Range(dirs), l \in Range(langs) :
             Writes(OutputPath(d, l)) = 1
       /\ \A i \in 1..Len(written) : written[i].path \in OutputPaths

\* C3 amended: a run without a fatal error performs, for every directory
\* named in the inputs, one write per entry of the language list (so a
\* language listed n times is written n times, to the same path
\* D/<assembly file name>.<L>) and writes no other path; every write stores
\* the copy loaded and rewritten in the iteration that makes it.
C3_OneWritePerLanguageEntry ==
    /\ EndedWithoutFatalError =>
          /\ \A d \in Range(dirs), l \in TargetLanguages :
                Writes(OutputPath(d, l)) = Occurrences(langs, l)
          /\ \A i \in 1..Len(written) : written[i].path \in OutputPaths
    /\ (Len(log) > 0 /\ log[Len(log)].op = "write") =>
          LET e == log[Len(log)]
              r == log[LastIndex("read")]
              w == written[Len(written)]
          IN  /\ r.dir = e.dir /\ r.lang = e.lang
              /\ LastIndex("read") > 0
              /\ w.path = OutputPath(e.dir, e.lang)
              /\ w.doc = result

\* C3 witness: a run over two directories and two language entries ended
\* without a fatal error.
C3_Witness ==
    /\ pc = "done"
    /\ Len(assemblies) = 2
    /\ Len(langs) = 2
    /\ Len(written) = 4

Registrations(d) ==
    Cardinality({i \in 1..Len(rosetta.assemblies) :
                    rosetta.assemblies[i].directory = d})

\* loadAssemblies has returned.
AssembliesLoaded ==
    InIteration \/ pc \in {"loop", "print", "strict"}
    \/ EndedWithoutFatalError

\* C4 as stated: every directory named in the inputs is registered with the
\* Translation Engine exactly once, also when it is named more than once.
C4_RegisteredOncePerDirectory ==
    AssembliesLoaded => \A d \in Range(dirs) : Registrations(d) = 1

\* Every directory has one write per entry of the language list.
AllPairsWritten ==
    \A d \in Range(dirs), l \in TargetLanguages :
       Writes(OutputPath(d, l)) = Occurrences(langs, l)

\* Every file written holds what the last write to its path stored.
DiskKeepsWrites ==
    \A i \in 1..Len(written) :
       /\ written[i].path \in DOMAIN disk
       /\ \/ disk[written[i].path] = written[i].doc
          \/ \E j \in (i + 1)..Len(written) :
                written[j].path = written[i].path

\* C5: a run that got through all its pairs is rejected by strict mode if
\* and only if options.strict is set and the engine has errors; that
\* rejection comes after every output was written and after the
\* diagnostics were printed, and leaves the outputs as written; a recorded
\* diagnostic does not keep any pair from being loaded and written.
C5_StrictFailureOnlyAtEnd ==
    /\ (pc = "done" \/ (pc = "rejected" /\ rosetta.printed > 0)) =>
          ((thrown = StrictMessage) <=>
              (options.strict /\ rosetta.hasErrors))
    /\ thrown = StrictMessage =>
          /\ pc = "rejected"
          /\ rosetta.printed = 1
          /\ log[Len(log)].op = "print"
          /\ AllPairsWritten
          /\ DiskKeepsWrites
    /\ (pc \in {"print", "strict"} \/ EndedWithoutFatalError) =>
          AllPairsWritten

\* C5 witness: strict mode rejected a run that had written two outputs.
C5_Witness ==
    /\ thrown = StrictMessage
    /\ Len(written) >= 2

\* C6 as stated: in every run the diagnostics are printed exactly once.
C6_PrintedOnceInEveryRun ==
    pc \in {"done", "rejected"} => rosetta.printed = 1

\* C6 amended: in every run that no fatal error aborts, the diagnostics are
\* printed exactly once, after all pairs have been processed; in a run
\* aborted by a fatal error they are not printed at all; printDiagnostics
\* is never invoked between two pairs or before the last output write.
C6_PrintedOnceAfterAllPairs ==
    /\ rosetta.printed <= 1
    /\ EndedWithoutFatalError => rosetta.printed = 1
    /\ (pc = "rejected" /\ thrown # StrictMessage) => rosetta.printed = 0
    /\ rosetta.printed = 1 =>
          /\ log[Len(log)].op = "print"
          /\ AllPairsWritten
    /\ (InIteration \/ pc \in {"start", "loadAssemblies", "loop", "print"})
          => rosetta.printed = 0

\* C6 witness: the diagnostics are printed after two outputs were written.
C6_Witness ==
    /\ rosetta.printed = 1
    /\ Len(written) >= 2

SupportedKinds == {"class", "interface", "enum"}

\* C7: a type of a kind outside Class, Interface, Enum is never walked past
\* the switch and no document holding one is ever written; the run is
\* rejected with the unsupported-kind error at that type, the output of the
\* pair is not written, nothing more is loaded, translated or written, and
\* the outputs of earlier pairs stay as written.
C7_UnsupportedKindAborts ==
    /\ \A i \in 1..Len(written) :
          \A t \in 1..Len(written[i].doc.types) :
             written[i].doc.types[t].kind \in SupportedKinds
    /\ pc \in {"initializer", "methods", "parameters", "properties",
               "members"} => result.types[ti].kind \in SupportedKinds
    /\ thrown = UnsupportedKind =>
          /\ pc = "rejected"
          /\ result.types[ti].kind \notin SupportedKinds
          /\ OutputPath(Location, Language) \notin DOMAIN disk
          /\ Writes(OutputPath(Location, Language)) = 0
          /\ log[LastIndex("read")] = Event("read", Location, Language)
          /\ LastIndex("write") < LastIndex("read")
          /\ ~ENABLED Next
          /\ DiskKeepsWrites

\* C7 witness: the unsupported kind is met after an earlier pair was
\* written.
C7_Witness ==
    /\ thrown = UnsupportedKind
    /\ Len(written) >= 1

\* C8 as stated: when the unsupported-kind error is raised for a type, no
\* Docs node of the type was passed to the translation callback, no snippet
\* of it was submitted to the engine and the type is unmodified.
C8_NoPartialProcessing ==
    thrown = UnsupportedKind =>
       /\ visited[ti] = << >>
       /\ result.types[ti] = OnDisk(Location).types[ti]
       /\ OnDisk(Location).types[ti].docs.example \notin rosetta.snippets

\* A type of the current copy whose walk has returned.
Completed(i) == i \in 1..Len(visited) /\ i < ti

MemberNodes(type) == [m \in 1..Len(type.members) |-> Node("member", m, 0)]

\* C9 as stated: for an Enum the Docs nodes passed to the callback are
\* exactly the members' Docs.
C9_EnumVisitsOnlyMembers ==
    \A i \in 1..Len(visited) :
       (Completed(i) /\ result.types[i].kind = "enum") =>
          visited[i] = MemberNodes(result.types[i])

\* C9 amended: for an Enum the Docs nodes passed to the callback are the
\* type's own Docs first and then the Docs of its members, in order, each
\* once; no other node is visited and no method, parameter or property
\* handling is performed.
C9_EnumVisitsTypeThenMembers ==
    \A i \in 1..Len(visited) :
       (Completed(i) /\ result.types[i].kind = "enum") =>
          visited[i] = <<TypeNode>> \o MemberNodes(result.types[i])

\* C9 witness: the walk of an Enum with two members has returned.
C9_Witness ==
    \E i \in 1..Len(visited) :
       /\ Completed(i)
       /\ result.types[i].kind = "enum"
       /\ Len(result.types[i].members) = 2

\* The nodes visited after the initializer's.
AfterInitializerNode(nodes) ==
    LET at == CHOOSE i \in 1..Len(nodes) : nodes[i] = InitializerNode
    IN  SubSeq(nodes, at + 1, Len(nodes))

\* A class and an interface of the current copy with the same methods,
\* parameters and properties, both walked.
SameShape(i, j) ==
    /\ Completed(i) /\ Completed(j)
    /\ result.types[i].kind = "class"
    /\ result.types[j].kind = "interface"
    /\ Len(result.types[i].methods) = Len(result.types[j].methods)
    /\ \A m \in 1..Len(result.types[i].methods) :
          Len(result.types[i].methods[m].parameters)
             = Len(result.types[j].methods[m].parameters)
    /\ Len(result.types[i].properties) = Len(result.types[j].properties)

\* C10 as stated: for a Class the initializer's Docs are passed to the
\* callback, and the nodes visited after them are the nodes visited for an
\* Interface with the same methods, parameters and properties.
C10_ClassIsInitializerThenInterface ==
    \A i, j \in 1..Len(visited) :
       SameShape(i, j) =>
          /\ InitializerNode \in Range(visited[i])
          /\ AfterInitializerNode(visited[i]) = visited[j]

\* C10 amended: for a Class the type's own Docs are passed to the callback
\* first, then the initializer's Docs, and the nodes visited after the
\* initializer's are, in the same order, the nodes that are visited for an
\* Interface with the same methods, parameters and properties after that
\* Interface's own Docs; also when methods and properties are empty.
C10_ClassIsTypeInitializerThenInterface ==
    \A i, j \in 1..Len(visited) :
       SameShape(i, j) =>
          /\ visited[j][1] = TypeNode
          /\ visited[i] = <<TypeNode, InitializerNode>> \o Tail(visited[j])

\* C10 witness: a class and an interface with the same method, parameter
\* and property have both been walked.
C10_Witness ==
    \E i, j \in 1..Len(visited) :
       /\ SameShape(i, j)
       /\ Len(result.types[i].methods) = 1
       /\ Len(visited[i]) = 5

\* The case of C10 with empty methods and properties is walked too.
C10_EmptyWitness ==
    \E i, j \in 1..Len(visited) :
       /\ SameShape(i, j)
       /\ Len(result.types[i].methods) = 0
       /\ Len(result.types[i].properties) = 0

\* ------------------------------------------------------------------- C11
\* The docs the last transliterateDocs call was made on, as they are now.
CallDocs == DocsAt(result.types[call.type], call.node)

\* C11: after a callback call on a Docs node: when docs.example was absent
\* or empty the engine was not called and the docs are unchanged; when it
\* was non-empty the engine was called, and if it returned a Translation t
\* docs.example is prefixDisclaimer(t), while if it returned none the docs
\* are unchanged, the run was not rejected by the callback and no
\* diagnostic beyond the engine's own was recorded.
C11_CallbackRewritesExample ==
    call.made =>
       /\ call.engine = HasExample(call.docs)
       /\ ~call.engine =>
             /\ CallDocs = call.docs
             /\ rosetta.hasErrors = call.errorsBefore
             /\ thrown # "engine"
       /\ (call.engine /\ call.outcome.throws) =>
             /\ CallDocs = call.docs
             /\ pc = "rejected" /\ thrown = "engine"
       /\ (call.engine /\ ~call.outcome.throws
             /\ call.outcome.translation.some) =>
             /\ CallDocs =
                  DocsOf(PrefixDisclaimer(call.outcome.translation))
             /\ call.outcome.translation.language = Language
       /\ (call.engine /\ ~call.outcome.throws
             /\ ~call.outcome.translation.some) =>
             /\ CallDocs = call.docs
             /\ thrown # "engine"
             /\ rosetta.hasErrors =
                  (call.errorsBefore \/ call.outcome.diagnostic)

\* C11 witnesses: the walk went on after a call whose example got a
\* translation, after one whose example got none, and after one whose
\* example was empty.
C11_Witness ==
    /\ call.made /\ call.engine /\ ~call.outcome.throws
    /\ call.outcome.translation.some
    /\ CallDocs # call.docs
    /\ call.node = InitializerNode
    /\ pc = "methods"

C11_NoneWitness ==
    /\ call.made /\ call.engine /\ ~call.outcome.throws
    /\ ~call.outcome.translation.some
    /\ ~call.outcome.diagnostic /\ ~rosetta.hasErrors
    /\ call.node = InitializerNode
    /\ CallDocs = DocsOf(Src("new C()"))
    /\ pc = "methods"

C11_EmptyWitness ==
    /\ call.made /\ ~call.engine
    /\ call.docs = DocsOf(EmptyText)
    /\ pc = "types"

\* ------------------------------------------------------------------- C12
\* C12: prefixDisclaimer returns four parts joined by newlines: a comment
\* line with the notice (the confirmed wording when didCompile is true,
\* the incomplete-type-information wording otherwise), a comment line
\* pointing to the reference, an empty line, and the source verbatim; the
\* comment token is '#' for python and ruby and '//' for every other
\* language; the second line and the empty line do not depend on
\* didCompile.
C12_DisclaimerShape ==
    prefixed.applied =>
       LET t == prefixed.translation
           out == prefixed.text
           token == IF t.language = "python" \/ t.language = "ruby"
                    THEN "#" ELSE "//"
           notice ==
               IF t.didCompile
               THEN "This example was automatically transliterated."
               ELSE "This example was automatically transliterated with incomplete type information. It may not work as-is."
       IN  /\ Len(out) = 3 + (IF t.source = << >> THEN 1 ELSE Len(t.source))
           /\ out[1] = <<token, notice>>
           /\ out[2] = <<token, "See https://github.com/aws/jsii/issues/826 for more information.">>
           /\ out[3] = << >>
           /\ IF t.source = << >>
              THEN out[4] = << >>
              ELSE \A n \in 1..Len(t.source) : out[3 + n] = t.source[n]

\* C12 witnesses: a disclaimer with '#' in front of a two-line source that
\* did not compile, and one with '//' for a language the switch does not
\* name, in front of a source that compiled.
C12_Witness ==
    /\ prefixed.applied
    /\ prefixed.translation.language = "ruby"
    /\ ~prefixed.translation.didCompile
    /\ Len(prefixed.translation.source) = 2
    /\ Len(prefixed.text) = 5
    /\ prefixed.text[1][1] = "#"

C12_DefaultWitness ==
    /\ prefixed.applied
    /\ prefixed.translation.language = "klingon"
    /\ prefixed.translation.didCompile
    /\ prefixed.text[2][1] = "//"

\* ------------------------------------------------------------------- C13
\* The i-th output written still holds what the last write to its path
\* stored.
Kept(i) ==
    /\ written[i].path \in DOMAIN disk
    /\ \/ disk[written[i].path] = written[i].doc
       \/ \E j \in (i + 1)..Len(written) : written[j].path = written[i].path

\* The run was rejected by a failed read or write within the loop over the
\* pairs.
FailedInPair ==
    /\ thrown = "io"
    /\ di \in 1..Len(assemblies)
    /\ li \in 1..Len(langs)

\* C13 as stated: once a fatal error was thrown the run has ended, with no
\* further Loader invocation, engine call or output write, and every
\* output written before the error keeps its content.
C13_FatalErrorKeepsOutputs ==
    thrown # "" =>
       /\ pc = "rejected"
       /\ ~ENABLED Next
       /\ \A i \in 1..Len(written) : Kept(i)

\* C13 amended: once a fatal error was thrown the run has ended, with no
\* further Loader invocation, engine call or output write, and every
\* output written before the error keeps its content, except at the path
\* of the pair whose own read or write failed: a failed write may leave
\* an incomplete file at its path, which holds an earlier output when the
\* pair's language is listed more than once.
C13_FatalErrorEndsRun ==
    thrown # "" =>
       /\ pc = "rejected"
       /\ ~ENABLED Next
       /\ \A i \in 1..Len(written) :
             \/ Kept(i)
             \/ /\ FailedInPair
                /\ written[i].path = OutputPath(Location, Language)
                /\ disk[written[i].path] = PartialFile
                /\ Occurrences(langs, Language) > 1

\* C13 witnesses: the run was rejected by the engine and by a failed read,
\* each after an output was written and with a pair left unprocessed; by a
\* failed tablet load, before any read; and by a failed write that left
\* an incomplete file where an earlier output was.
C13_Witness ==
    /\ pc = "rejected" /\ thrown = "engine"
    /\ Len(written) >= 1
    /\ \A i \in 1..Len(written) : Kept(i)
    /\ li < Len(langs) \/ di < Len(assemblies)

C13_IoWitness ==
    /\ pc = "rejected" /\ thrown = "io"
    /\ Len(written) >= 1
    /\ log[Len(log)].op = "read"
    /\ li <= Len(langs)

C13_TabletWitness ==
    /\ pc = "rejected" /\ thrown = "io"
    /\ log = << Event("tablet", "", "") >>
    /\ Len(dirs) > 0 /\ Len(langs) > 0

C13_PartialWitness ==
    /\ pc = "rejected" /\ FailedInPair
    /\ \E i \in 1..Len(written) : ~Kept(i)

\* ------------------------------------------------------------------- C14
\* C14: when options.tablet is given the tablet is loaded exactly once,
\* before the first assembly is read or registered and before any
\* translation call; when it is not given no tablet load happens.
C14_TabletFirstAndOnce ==
    /\ Occurrences([i \in 1..Len(log) |-> log[i].op], "tablet") =
          (IF options.tablet /\ pc # "start" THEN 1 ELSE 0)
    /\ rosetta.tablets \in {0, 1}
    /\ ~options.tablet => rosetta.tablets = 0
    /\ options.tablet =>
          /\ Len(log) > 0 => log[1].op = "tablet"
          /\ (rosetta.assemblies # << >> \/ rosetta.snippets # {}
                \/ Len(log) > 1) => rosetta.tablets = 1

\* C14 witnesses: a run with a tablet that translated a snippet and wrote
\* an output, and one without a tablet that did the same.
C14_Witness ==
    /\ options.tablet
    /\ rosetta.tablets = 1
    /\ rosetta.snippets # {}
    /\ Len(written) >= 1
    /\ log[2].op = "read"

C14_NoTabletWitness ==
    /\ ~options.tablet
    /\ rosetta.tablets = 0
    /\ rosetta.snippets # {}
    /\ Len(written) >= 1
    /\ log[1].op = "read"

\* ------------------------------------------------------------------- C15
\* The directories in the order given, each at its first occurrence.
RECURSIVE Distinct(_)
Distinct(seq) ==
    IF seq = << >> THEN << >>
    ELSE LET front == Distinct(SubSeq(seq, 1, Len(seq) - 1))
             last == seq[Len(seq)]
         IN  IF last \in Range(front) THEN front ELSE Append(front, last)

IsPairEvent(e) == e.lang # ""

\* The calls made for the pairs: reads, markdown translations, writes.
PairLog == SelectSeq(log, IsPairEvent)

\* The n-th pair: directories in list order, for each directory the
\* languages in list order.
PairNumber(n) ==
    [dir |-> Distinct(dirs)[((n - 1) \div Len(langs)) + 1],
     lang |-> langs[((n - 1) % Len(langs)) + 1]]

ReadsUpTo(i) == Cardinality({j \in 1..i : PairLog[j].op = "read"})

WalkComplete ==
    /\ Len(visited) = Len(result.types)
    /\ \A t \in 1..Len(result.types) :
          NodesOf(result.types[t]) \subseteq Range(visited[t])

\* C15: the pairs are processed one at a time in the order given
\* (directories in list order, for each directory the languages in list
\* order): every call belongs to the pair whose load was the last load
\* before it, the n-th load is the n-th pair's, a pair's markdown
\* translation follows its load, its write follows its walk over all
\* types, the next pair's load follows that write, and the tablet load,
\* the reads and the registrations of loadAssemblies precede every pair.
C15_PairsInOrderOneAtATime ==
    /\ \A i \in 1..Len(PairLog) :
          LET e == PairLog[i]
              pair == PairNumber(ReadsUpTo(i))
          IN  /\ e.op \in {"read", "markdown", "write"}
              /\ e.dir = pair.dir /\ e.lang = pair.lang
              /\ e.op = "read" /\ i > 1 => PairLog[i - 1].op = "write"
              /\ e.op = "markdown" => PairLog[i - 1].op = "read"
              /\ e.op = "write" => PairLog[i - 1].op \in {"read", "markdown"}
    /\ Len(PairLog) > 0 =>
          \A j \in 1..Len(log) :
             ~IsPairEvent(log[j]) =>
                \/ log[j].op = "print"
                \/ \A i \in 1..Len(log) : IsPairEvent(log[i]) => j < i
    /\ (pc = "write"
          \/ (Len(log) > 0 /\ log[Len(log)].op = "write")) => WalkComplete
    /\ Len(written) = Occurrences([i \in 1..Len(log) |-> log[i].op], "write")
    /\ InIteration =>
          /\ Len(PairLog) > 0
          /\ PairNumber(ReadsUpTo(Len(PairLog))) =
                [dir |-> Location, lang |-> Language]

\* C15 witness: two directories and two languages, all four pairs written
\* in order.
C15_Witness ==
    /\ Len(Distinct(dirs)) = 2 /\ Len(langs) = 2
    /\ langs[1] # langs[2]
    /\ Len(written) = 4
    /\ \A n \in 1..4 :
          written[n].path = OutputPath(PairNumber(n).dir, PairNumber(n).lang)
    /\ pc = "done"

\* ------------------------------------------------------------------- C16
\* The documentation nodes of a type that its kind makes eligible.
EligibleNodes(type) ==
    LET shape ==
            {Node("method", m, 0) : m \in 1..Len(type.methods)}
            \cup UNION {{Node("parameter", m, p) :
                            p \in 1..Len(type.methods[m].parameters)} :
                        m \in 1..Len(type.methods)}
            \cup {Node("property", q, 0) : q \in 1..Len(type.properties)}
    IN  CASE type.kind = "interface" -> shape
          [] type.kind = "class" ->
               shape \cup (IF type.initializer.defined
                           THEN {InitializerNode} ELSE {})
          [] type.kind = "enum" ->
               {Node("member", q, 0) : q \in 1..Len(type.members)}
          [] OTHER -> {}

\* C16: in one iteration no Docs node is passed to the callback twice;
\* every eligible node of a supported type that was walked (each method's,
\* parameter's and property's Docs, the initializer's Docs of a Class,
\* each member's Docs of an Enum) was passed exactly once; and all method
\* and parameter Docs of a type are visited before any of its property
\* Docs.
C16_EachNodeOnce ==
    \A t \in 1..Len(visited) :
       /\ \A n \in Range(visited[t]) : Occurrences(visited[t], n) = 1
       /\ Range(visited[t]) \subseteq
             EligibleNodes(result.types[t]) \cup {TypeNode, InitializerNode}
       /\ (Completed(t) /\ result.types[t].kind \in SupportedKinds) =>
             \A n \in EligibleNodes(result.types[t]) :
                Occurrences(visited[t], n) = 1
       /\ \A a, b \in 1..Len(visited[t]) :
             (visited[t][a].kind = "property"
                /\ visited[t][b].kind \in {"method", "parameter"}) => b < a

\* C16 witnesses: a class with an initializer, a method with a parameter
\* and a property, walked; and an enum with two members, walked.
C16_Witness ==
    \E t \in 1..Len(visited) :
       /\ Completed(t)
       /\ result.types[t].kind = "class"
       /\ Cardinality(EligibleNodes(result.types[t])) = 4
       /\ Len(visited[t]) = 5
       /\ HasExample(DocsAt(result.types[t], InitializerNode))

C16_EnumWitness ==
    \E t \in 1..Len(visited) :
       /\ Completed(t)
       /\ result.types[t].kind = "enum"
       /\ Cardinality(EligibleNodes(result.types[t])) = 2

\* ------------------------------------------------------------------- C17
\* The README of the current pair's directory as its file holds it.
LoadedReadme == OnDisk(Location).readme

\* The markdown translations made since the current pair's load.
MarkdownCalls ==
    Cardinality({i \in (LastIndex("read") + 1)..Len(log) :
                    log[i].op = "markdown"})

\* C17: in an iteration whose loaded copy has a non-empty README markdown
\* the markdown translation is called exactly once, right after the load
\* and before any type is walked, with the strict flag enabled whatever
\* options.strict is and with prefixDisclaimer as formatter, and the
\* README's markdown is replaced by its result (code blocks replaced by
\* the disclaimer and the translation, the rest as loaded); when the
\* README is absent or empty the translation is not called and the README
\* stays as loaded.
C17_MarkdownOncePerIteration ==
    /\ rosetta.markdownStrict \subseteq {TRUE}
    /\ pc = "markdown" =>
          /\ visited = << >>
          /\ MarkdownCalls = 0
          /\ result.readme = LoadedReadme
    /\ (InIteration /\ pc # "markdown") =>
          IF Truthy(LoadedReadme)
          THEN /\ MarkdownCalls = 1
               /\ log[LastIndex("read") + 1] =
                     Event("markdown", Location, Language)
               /\ rosetta.markdownStrict = {TRUE}
               /\ CodeTexts(LoadedReadme) \subseteq rosetta.snippets
               /\ Len(result.readme) = Len(LoadedReadme)
               /\ \E t \in Translations(Language) :
                     \A b \in 1..Len(LoadedReadme) :
                        IF LoadedReadme[b].code /\ t.some
                        THEN result.readme[b] =
                               Code(PrefixDisclaimer(t))
                        ELSE result.readme[b] = LoadedReadme[b]
          ELSE /\ MarkdownCalls = 0
               /\ result.readme = LoadedReadme

\* C17 witnesses: a README with a code block was translated in a run
\* without options.strict, and its types are being walked; a copy without
\* README is being walked with no markdown translation made.
C17_Witness ==
    /\ ~options.strict
    /\ pc = "typeDocs"
    /\ Truthy(LoadedReadme)
    /\ result.readme # LoadedReadme
    /\ rosetta.markdownStrict = {TRUE}

C17_NoReadmeWitness ==
    /\ pc = "typeDocs"
    /\ ~Truthy(LoadedReadme)
    /\ \A i \in 1..Len(log) : log[i].op # "markdown"
    /\ Len(written) >= 1

\* ------------------------------------------------------------------- C18
\* The Loader invocations (reads of the assembly file) of a directory.
Reads(d) ==
    Cardinality({i \in 1..Len(log) : log[i].op = "read" /\ log[i].dir = d})

\* Those made by the iterations, and those made by loadAssemblies.
ReadsInLoop(d) ==
    Cardinality({i \in 1..Len(log) :
                    /\ log[i].op = "read" /\ log[i].dir = d
                    /\ IsPairEvent(log[i])})

\* C18 as stated: over a run that ends without a fatal error the Loader of
\* each directory is invoked exactly once per target language, so the
\* reads of a directory's assembly file are as many as the languages.
C18_ReadsEqualLanguages ==
    EndedWithoutFatalError =>
       \A d \in Range(dirs) : Reads(d) = Len(langs)

\* C18 amended: over a run that ends without a fatal error a Loader is
\* created and invoked once by loadAssemblies for every entry of the
\* directory list, and the Loader of each directory is invoked once more
\* per entry of the language list: the reads of a directory's assembly
\* file are as many as the languages plus the times the directory is
\* named (plus one when it is named once).
C18_ReadsAreLanguagesPlusLoad ==
    EndedWithoutFatalError =>
       \A d \in Range(dirs) :
          /\ ReadsInLoop(d) = Len(langs)
          /\ Reads(d) = Len(langs) + Occurrences(dirs, d)
          /\ \A l \in Range(langs) :
                Occurrences(log, Event("read", d, l)) = Occurrences(langs, l)

\* C18 witness: two directories and two languages; each directory's file
\* was read three times.
C18_Witness ==
    /\ EndedWithoutFatalError
    /\ Len(dirs) = 2 /\ dirs[1] # dirs[2]
    /\ Len(langs) = 2
    /\ \A d \in Range(dirs) : Reads(d) = 3 /\ ReadsInLoop(d) = 2

\* ------------------------------------------------------------------- C19
\* The run was rejected inside loadAssemblies: by a failed read or parse
\* of an assembly file, or by a failed registration.
FailedInLoadAssemblies ==
    /\ pc = "rejected"
    /\ Len(log) > 0
    /\ log[Len(log)].op \in {"read", "register"}
    /\ ~IsPairEvent(log[Len(log)])

\* C19: the assemblies of all directories are read and registered before
\* the first iteration starts: when an iteration has started or the loop
\* was reached every entry of the directory list has been read and
\* registered, and when the read, the parse or the registration of any
\* directory's assembly failed, the last one included, no iteration has
\* started and no output file exists for any directory.
C19_AllLoadedBeforeFirstPair ==
    /\ (Len(PairLog) > 0 \/ Len(written) > 0
          \/ pc \in {"loop", "print", "strict", "done"}) =>
          /\ Len(rosetta.assemblies) = Len(dirs)
          /\ \A n \in 1..Len(dirs) :
                /\ rosetta.assemblies[n].directory = dirs[n]
                /\ \E i \in 1..Len(log) :
                      /\ log[i] = Event("register", dirs[n], "")
                      /\ \A j \in 1..Len(log) :
                            IsPairEvent(log[j]) => i < j
    /\ FailedInLoadAssemblies =>
          /\ thrown = "io"
          /\ Len(rosetta.assemblies) < Len(dirs)
          /\ PairLog = << >>
          /\ written = << >>
          /\ DOMAIN disk = InputPaths

\* C19 witness: the assembly of the last of two directories failed to
\* register, with languages requested; nothing was written.
C19_Witness ==
    /\ FailedInLoadAssemblies
    /\ Len(dirs) = 2 /\ dirs[1] # dirs[2] /\ Len(langs) > 0
    /\ Len(rosetta.assemblies) = 1
    /\ log[Len(log)] = Event("register", dirs[2], "")
    /\ written = << >>
====
